---- MODULE Spec2Model ----
(***************************************************************************)
(* DHTSetup::setup (src/src/DHTSetup.cc) as a state machine.               *)
(*                                                                         *)
(* Global state: the two DHTRegistry slots (IPv4, IPv6), the UDP port and  *)
(* the UDPTrackerClient kept by BtRegistry.  A call of setup is a process  *)
(* that walks through the statements of the function; its locals are kept  *)
(* in call[p].  Exceptions raised inside the try block are                 *)
(* RecoverableException (DL_ABORT_EX, line 134, and what the collaborators *)
(* throw), which the handler of line 289 catches.                          *)
(***************************************************************************)
EXTENDS Integers, Sequences, FiniteSets, TLC

\* ------------------------------------------------------------------ bounds
MaxPort == 3
MaxPeers == 2

Ports == 1..MaxPort

\* ------------------------------------------------------------- vocabulary
AF_INET == "AF_INET"
AF_INET6 == "AF_INET6"
AF_UNSPEC == "AF_UNSPEC"
Families == {AF_INET, AF_INET6}
FamilyArgs == {AF_INET, AF_INET6, AF_UNSPEC}

Main == "main"
Other == "other"
Procs == {Main, Other}

VARIABLES reg, udpPort, udpTrackerClient, call

vars == <<reg, udpPort, udpTrackerClient, call>>

\* -------------------------------------------------------------- sequences
Range(s) == {s[i] : i \in 1..Len(s)}

Min(S) == CHOOSE x \in S : \A y \in S : x <= y

RECURSIVE SortedSeq(_)
SortedSeq(S) == IF S = {} THEN <<>> ELSE <<Min(S)>> \o SortedSeq(S \ {Min(S)})

\* Sequences over S without repetition, of length 1..n.
RECURSIVE DistinctSeqs(_, _)
DistinctSeqs(S, n) ==
  IF n = 0 THEN {}
  ELSE LET shorter == DistinctSeqs(S, n - 1)
       IN  {<<x>> : x \in S} \cup shorter \cup
           UNION {{Append(t, x) : x \in S \ Range(t)} : t \in shorter}

\* --------------------------------------------------------------- registry
\* DHTRegistry::Data: the initialized flag and the nine service references.
\* A reference is the number of the call that built the object, 0 when unset.
NoNode == [origin |-> "none", owner |-> 0, port |-> 0]

EmptyData ==
  [initialized |-> FALSE, localNode |-> NoNode, routingTable |-> 0,
   taskQueue |-> 0, taskFactory |-> 0, peerAnnounceStorage |-> 0,
   tokenTracker |-> 0, messageDispatcher |-> 0, messageReceiver |-> 0,
   messageFactory |-> 0]

\* DHTRegistry::isInitialized / isInitialized6
isInitialized(r, f) == r[f].initialized

\* DHTRegistry::clearData / clearData6: the slot goes back to absent.
clearData(r, f) == [r EXCEPT ![f] = EmptyData]

\* ---------------------------------------------------------- collaborators
\* SegList<int>::normalize on the parsed PREF_DHT_LISTEN_PORT: the candidate
\* ports in ascending order, each once.
normalize(conf) == SortedSeq(Range(conf))

\* DHTConnectionImpl::bind(port, addr): binds exactly `port`.
bindPort(port, avail) ==
  [rv |-> port \in avail, port |-> port, tried |-> <<port>>]

\* DHTConnectionImpl::bind(port, addr, sgl): the candidates in the order
\* given, stopping at the first that binds.
RECURSIVE bindSegList(_, _, _)
bindSegList(sgl, avail, tried) ==
  IF sgl = <<>> THEN [rv |-> FALSE, port |-> 0, tried |-> tried]
  ELSE IF Head(sgl) \in avail
       THEN [rv |-> TRUE, port |-> Head(sgl), tried |-> Append(tried, Head(sgl))]
       ELSE bindSegList(Tail(sgl), avail, Append(tried, Head(sgl)))

\* DHTRoutingTableDeserializer: a load either fails as a whole or yields the
\* saved local node and the saved peers.
Snapshots ==
  {[ok |-> FALSE, nodes |-> {}]} \cup
  {[ok |-> TRUE, nodes |-> 1..n] : n \in 0..MaxPeers}

\* ----------------------------------------------------------------- locals
Globals == [reg |-> reg, udpPort |-> udpPort, udpTrackerClient |-> udpTrackerClient]

IdleCall ==
  [pc |-> "idle", family |-> AF_UNSPEC, id |-> 0,
   pre |-> [reg |-> [f \in Families |-> EmptyData], udpPort |-> 0,
            udpTrackerClient |-> 0],
   loaded |-> FALSE, snapshot |-> [ok |-> FALSE, nodes |-> {}],
   localNode |-> NoNode, port |-> 0,
   conf |-> <<>>, avail |-> {}, tried |-> <<>>, bound |-> FALSE,
   built |-> {}, wired |-> {}, trackerClient |-> 0,
   rt |-> <<>>, periodicTasks1 |-> <<>>,
   entryHost |-> [f \in Families |-> FALSE],
   tempCommands |-> <<>>,
   exc |-> "none", thrownAt |-> "none", result |-> <<>>]

Init ==
  /\ reg = [f \in Families |-> EmptyData]
  /\ udpPort \in 0..MaxPort
  /\ udpTrackerClient = 0
  /\ call = [p \in Procs |-> IdleCall]

\* ------------------------------------------------------ pieces of setup()
\* Mutant of Rejects: the check of the IPv4 flag is lost.
RejectsWithoutIPv4Check(r, family) ==
  \/ (family # AF_INET /\ family # AF_INET6)
  \/ (family = AF_INET6 /\ isInitialized(r, AF_INET6))

\* Mutant of Rejects: the check of the IPv6 flag is lost.
RejectsWithoutIPv6Check(r, family) ==
  \/ (family # AF_INET /\ family # AF_INET6)
  \/ (family = AF_INET /\ isInitialized(r, AF_INET))

\* Lines 87-89: the guard of the early return.
Rejects(r, family) ==
  \/ (family # AF_INET /\ family # AF_INET6)
  \/ (family = AF_INET /\ isInitialized(r, AF_INET))
  \/ (family = AF_INET6 /\ isInitialized(r, AF_INET6))

\* Mutant of LoadedNode: the default of lines 109-111 is lost.
LoadedNodeWithoutDefault(snapshot, id) ==
  IF snapshot.ok THEN [origin |-> "file", owner |-> id, port |-> 0]
  ELSE NoNode

\* Lines 100-111: the local node is the deserialized one, or a new DHTNode
\* when the load threw.
LoadedNode(snapshot, id) ==
  IF snapshot.ok THEN [origin |-> "file", owner |-> id, port |-> 0]
  ELSE [origin |-> "new", owner |-> id, port |-> 0]

\* Mutant of BindTransport: the test of line 125 is inverted.
BindTransportInverted(port, conf, avail) ==
  IF port # 0 THEN bindSegList(normalize(conf), avail, <<>>)
  ELSE bindPort(port, avail)

\* Mutant of BindTransport: the call of line 128 is lost.
BindTransportUnnormalized(port, conf, avail) ==
  IF port = 0 THEN bindSegList(conf, avail, <<>>)
  ELSE bindPort(port, avail)

\* Mutant of BindTransport: the UDP port of the registry is not looked at.
BindTransportIgnoresPort(port, conf, avail) ==
  bindSegList(normalize(conf), avail, <<>>)

\* Lines 125-132: with no UDP port in use yet the configured candidates are
\* parsed, normalized and handed to bind; otherwise exactly `port` is bound.
BindTransport(port, conf, avail) ==
  IF port = 0 THEN bindSegList(normalize(conf), avail, <<>>)
  ELSE bindPort(port, avail)

\* Mutant of ConstructOrder: the tracker is made after the two services
\* whose constructors take it.
ConstructOrderTrackerLate ==
  <<"routingTable", "factory", "dispatcher", "receiver", "tracker",
    "taskQueue", "taskFactory", "peerAnnounceStorage", "tokenTracker">>

\* Lines 140-149: the constructor calls, in the order of the statements.
ConstructOrder ==
  <<"routingTable", "factory", "tracker", "dispatcher", "receiver",
    "taskQueue", "taskFactory", "peerAnnounceStorage", "tokenTracker">>

\* Lines 144-145: the references handed over as constructor arguments.
CtorWiring == {<<"dispatcher", "tracker">>, <<"receiver", "tracker">>}

\* Lines 140-149: the services built by setup.
Services ==
  {"routingTable", "factory", "tracker", "dispatcher", "receiver",
   "taskQueue", "taskFactory", "peerAnnounceStorage", "tokenTracker"}

\* Lines 144-145 and 153-180: <<holder, injected>> for every setter call.
Wiring ==
  {<<"dispatcher", "tracker">>, <<"receiver", "tracker">>,
   <<"tracker", "routingTable">>, <<"tracker", "factory">>,
   <<"receiver", "connection">>, <<"receiver", "factory">>,
   <<"receiver", "routingTable">>,
   <<"taskFactory", "localNode">>, <<"taskFactory", "routingTable">>,
   <<"taskFactory", "dispatcher">>, <<"taskFactory", "factory">>,
   <<"taskFactory", "taskQueue">>,
   <<"routingTable", "taskQueue">>, <<"routingTable", "taskFactory">>,
   <<"peerAnnounceStorage", "taskQueue">>,
   <<"peerAnnounceStorage", "taskFactory">>,
   <<"factory", "routingTable">>, <<"factory", "connection">>,
   <<"factory", "dispatcher">>, <<"factory", "peerAnnounceStorage">>,
   <<"factory", "tokenTracker">>, <<"factory", "localNode">>}

\* Mutant of RegisterData: the flag of lines 280-284 is set with the
\* references.
RegisterDataMarked(r, family, c) ==
  [r EXCEPT ![family] =
     [@ EXCEPT !.initialized = TRUE,
               !.localNode = c.localNode, !.routingTable = c.id,
               !.taskQueue = c.id, !.taskFactory = c.id,
               !.peerAnnounceStorage = c.id, !.tokenTracker = c.id,
               !.messageDispatcher = c.id, !.messageReceiver = c.id,
               !.messageFactory = c.id]]

\* Lines 185-206: the nine references of the family's slot.
RegisterData(r, family, c) ==
  [r EXCEPT ![family] =
     [@ EXCEPT !.localNode = c.localNode, !.routingTable = c.id,
               !.taskQueue = c.id, !.taskFactory = c.id,
               !.peerAnnounceStorage = c.id, !.tokenTracker = c.id,
               !.messageDispatcher = c.id, !.messageReceiver = c.id,
               !.messageFactory = c.id]]

\* Mutant of RegisterTrackerClient: both branches register the client.
RegisterTrackerClientAnyFamily(cur, family, client) == client

\* Line 195: only the IPv4 branch registers the UDPTrackerClient.
RegisterTrackerClient(cur, family, client) ==
  IF family = AF_INET THEN client ELSE cur

\* Lines 208-211: routingTable->addNode for every deserialized node.
SeedNodes(nodes) == SortedSeq(nodes)

\* Mutant of SeedTasks: the test of line 212 is lost.
SeedTasksAlways(nodes) == <<"BucketRefreshTask(forceRefresh)">>

\* Lines 212-217: one forced bucket refresh task on the task queue when
\* nodes were deserialized.
SeedTasks(nodes) ==
  IF nodes # {} THEN <<"BucketRefreshTask(forceRefresh)">> ELSE <<>>

\* Mutant of EntryPointCommands: the IPv4 preference is read for both
\* families.
EntryPointCommandsIPv4Pref(entryHost, family) ==
  IF entryHost[AF_INET] THEN <<"DHTEntryPointNameResolveCommand">> ELSE <<>>

\* Lines 219-242: the entry point command, when the family's host is set.
EntryPointCommands(entryHost, family) ==
  IF entryHost[family] THEN <<"DHTEntryPointNameResolveCommand">> ELSE <<>>

\* Mutant of FixedCommands: two of the blocks change places.
FixedCommandsReordered ==
  <<"DHTInteractionCommand", "DHTBucketRefreshCommand",
    "DHTTokenUpdateCommand", "DHTPeerAnnounceCommand",
    "DHTAutoSaveCommand">>

\* Lines 243-279: the five commands pushed unconditionally, in this order.
FixedCommands ==
  <<"DHTInteractionCommand", "DHTTokenUpdateCommand",
    "DHTBucketRefreshCommand", "DHTPeerAnnounceCommand",
    "DHTAutoSaveCommand">>

\* Mutant of SetInitialized: the two branches are swapped.
SetInitializedSwapped(r, family) ==
  [r EXCEPT ![IF family = AF_INET THEN AF_INET6 ELSE AF_INET].initialized = TRUE]

\* Lines 280-284.
SetInitialized(r, family) == [r EXCEPT ![family].initialized = TRUE]

\* Mutant of PublishPort: the bound port is never published.
PublishPortNever(cur, port) == cur

\* Lines 285-288: the bound port is published when no UDP port is set.
PublishPort(cur, port) == IF cur = 0 THEN port ELSE cur

\* Mutant of ClearCommands: the handler keeps what was pushed.
KeepCommands(commands) == commands

\* Line 293: tempCommands.clear().
ClearCommands(commands) == <<>>

\* Mutant of RollbackData: the handler leaves the slot as it is.
RollbackDataSkipped(r, family) == r

\* Mutant of RollbackData: the two branches of the handler are swapped.
RollbackDataOtherFamily(r, family) ==
  clearData(r, IF family = AF_INET THEN AF_INET6 ELSE AF_INET)

\* Lines 294-300: the family's slot is cleared.
RollbackData(r, family) == clearData(r, family)

\* Mutant of RollbackTrackerClient: the handler keeps the client.
RollbackTrackerClientKept(cur, family) == cur

\* Mutant of RollbackTrackerClient: the handler drops the client for both
\* families.
RollbackTrackerClientAnyFamily(cur, family) == 0

\* Lines 296-297: the IPv4 branch drops the UDPTrackerClient.
RollbackTrackerClient(cur, family) == IF family = AF_INET THEN 0 ELSE cur

\* The statements in which a collaborator may throw.
ThrowingSteps == {"construct", "wire", "seed", "entry", "fixed"}

\* ---------------------------------------------------------------- actions
InCall(p) == call[p].pc \notin {"idle", "done"}

\* The objects a call builds are numbered with a number no live object
\* carries: not one held by the registry, not one of a call in progress.
LiveIds ==
  {reg[f].routingTable : f \in Families} \cup
  {call[q].id : q \in {r \in Procs : InCall(r)}}

FreshId ==
  Min({n \in 1..(Cardinality(Families) + Cardinality(Procs)) : n \notin LiveIds})

\* Lines 83-91: entry of setup and the early return.
Setup(p, family) ==
  /\ ~InCall(p)
  /\ LET c == [IdleCall EXCEPT !.family = family, !.id = FreshId,
                               !.pre = Globals]
     IN  call' = [call EXCEPT ![p] =
                    IF Rejects(reg, family) THEN [c EXCEPT !.pc = "done"]
                    ELSE [c EXCEPT !.pc = "load"]]
  /\ UNCHANGED <<reg, udpPort, udpTrackerClient>>

\* Lines 93-111.
Load(p) ==
  /\ call[p].pc = "load"
  /\ \E s \in Snapshots :
       call' = [call EXCEPT ![p] =
                  [@ EXCEPT !.pc = "bind", !.loaded = TRUE, !.snapshot = s,
                            !.localNode = LoadedNode(s, call[p].id)]]
  /\ UNCHANGED <<reg, udpPort, udpTrackerClient>>

\* Lines 113-135.
Bind(p) ==
  /\ call[p].pc = "bind"
  /\ \E conf \in (IF udpPort = 0 THEN DistinctSeqs(Ports, MaxPort) ELSE {<<>>}),
        avail \in SUBSET Ports :
       LET b == BindTransport(udpPort, conf, avail)
       IN  call' = [call EXCEPT ![p] =
                      [@ EXCEPT !.pc = IF b.rv THEN "setport" ELSE "catch",
                                !.conf = conf, !.avail = avail,
                                !.tried = b.tried, !.bound = b.rv,
                                !.port = b.port,
                                !.exc = IF b.rv THEN "none"
                                        ELSE "RecoverableException",
                                !.thrownAt = IF b.rv THEN "none" ELSE "bind"]]
  /\ UNCHANGED <<reg, udpPort, udpTrackerClient>>

\* Line 136.
SetPort(p) ==
  /\ call[p].pc = "setport"
  /\ call' = [call EXCEPT ![p] =
                [@ EXCEPT !.pc = "construct", !.localNode.port = call[p].port]]
  /\ UNCHANGED <<reg, udpPort, udpTrackerClient>>

\* Lines 140-151.
Construct(p) ==
  /\ call[p].pc = "construct"
  /\ call' = [call EXCEPT ![p] = [@ EXCEPT !.pc = "wire",
                                      !.built = Range(ConstructOrder)]]
  /\ UNCHANGED <<reg, udpPort, udpTrackerClient>>

\* Lines 153-183.
Wire(p) ==
  /\ call[p].pc = "wire"
  /\ call' = [call EXCEPT ![p] =
                [@ EXCEPT !.pc = "register", !.wired = Wiring,
                          !.trackerClient = call[p].id]]
  /\ UNCHANGED <<reg, udpPort, udpTrackerClient>>

\* Lines 185-206.
Register(p) ==
  /\ call[p].pc = "register"
  /\ reg' = RegisterData(reg, call[p].family, call[p])
  /\ udpTrackerClient' =
       RegisterTrackerClient(udpTrackerClient, call[p].family,
                             call[p].trackerClient)
  /\ call' = [call EXCEPT ![p].pc = "seed"]
  /\ UNCHANGED udpPort

\* Lines 207-217.
Seed(p) ==
  /\ call[p].pc = "seed"
  /\ call' = [call EXCEPT ![p] =
                [@ EXCEPT !.pc = "entry",
                          !.rt = SeedNodes(call[p].snapshot.nodes),
                          !.periodicTasks1 = SeedTasks(call[p].snapshot.nodes)]]
  /\ UNCHANGED <<reg, udpPort, udpTrackerClient>>

\* Lines 219-242.
EntryPoint(p) ==
  /\ call[p].pc = "entry"
  /\ \E h \in [Families -> BOOLEAN] :
       call' = [call EXCEPT ![p] =
                  [@ EXCEPT !.pc = "fixed", !.entryHost = h,
                            !.tempCommands =
                              @ \o EntryPointCommands(h, call[p].family)]]
  /\ UNCHANGED <<reg, udpPort, udpTrackerClient>>

\* Lines 243-279.
Fixed(p) ==
  /\ call[p].pc = "fixed"
  /\ call' = [call EXCEPT ![p] =
                [@ EXCEPT !.pc = "mark",
                          !.tempCommands = @ \o FixedCommands]]
  /\ UNCHANGED <<reg, udpPort, udpTrackerClient>>

\* Lines 280-284.
Mark(p) ==
  /\ call[p].pc = "mark"
  /\ reg' = SetInitialized(reg, call[p].family)
  /\ call' = [call EXCEPT ![p].pc = "publish"]
  /\ UNCHANGED <<udpPort, udpTrackerClient>>

\* Lines 285-288 and the return of line 302.
Publish(p) ==
  /\ call[p].pc = "publish"
  /\ udpPort' = PublishPort(udpPort, call[p].port)
  /\ call' = [call EXCEPT ![p] =
                [@ EXCEPT !.pc = "done", !.result = call[p].tempCommands]]
  /\ UNCHANGED <<reg, udpTrackerClient>>

\* A collaborator called in lines 140-279 throws.  In the block of the fixed
\* commands the exception may come after some of them were pushed.
Raise(p) ==
  /\ call[p].pc \in ThrowingSteps
  /\ \E k \in 0..(Len(FixedCommands) - 1) :
       /\ call[p].pc # "fixed" => k = 0
       /\ call' = [call EXCEPT ![p] =
                     [@ EXCEPT !.pc = "catch", !.exc = "RecoverableException",
                               !.thrownAt = call[p].pc,
                               !.tempCommands =
                                 @ \o SubSeq(FixedCommands, 1, k)]]
  /\ UNCHANGED <<reg, udpPort, udpTrackerClient>>

\* Lines 289-302: the handler and the return.
Catch(p) ==
  /\ call[p].pc = "catch"
  /\ reg' = RollbackData(reg, call[p].family)
  /\ udpTrackerClient' = RollbackTrackerClient(udpTrackerClient, call[p].family)
  /\ call' = [call EXCEPT ![p] =
                [@ EXCEPT !.pc = "done", !.exc = "none",
                          !.tempCommands = ClearCommands(@),
                          !.result = ClearCommands(call[p].tempCommands)]]
  /\ UNCHANGED udpPort

Step(p) ==
  \/ \E family \in FamilyArgs : Setup(p, family)
  \/ Load(p)
  \/ Bind(p)
  \/ SetPort(p)
  \/ Construct(p)
  \/ Wire(p)
  \/ Register(p)
  \/ Seed(p)
  \/ EntryPoint(p)
  \/ Fixed(p)
  \/ Mark(p)
  \/ Publish(p)
  \/ Raise(p)
  \/ Catch(p)

\* The calls of setup run one after the other, on the host's single thread.
Next == Step(Main)

Spec == Init /\ [][Next]_vars

\* Line 126: a listen port preference that names every port.
ListenPort == SortedSeq(Ports)

\* Mutant of TestUdpPort: the test of line 285 is lost.
TestUdpPortAlways(cur) == TRUE

\* Line 285: the test of the registry's UDP port.
TestUdpPort(cur) == cur = 0

\* Line 287: the bound port is written.
WriteUdpPort(cur, port) == port

\* Line 285 as a step of its own.  A call that finds a UDP port set returns.
PublishTest(p) ==
  /\ call[p].pc = "publish"
  /\ call' = [call EXCEPT ![p] =
                IF TestUdpPort(udpPort) THEN [@ EXCEPT !.pc = "write"]
                ELSE [@ EXCEPT !.pc = "done",
                               !.result = call[p].tempCommands]]
  /\ UNCHANGED <<reg, udpPort, udpTrackerClient>>

\* Line 287 as a step of its own, and the return of line 302.
PublishWrite(p) ==
  /\ call[p].pc = "write"
  /\ udpPort' = WriteUdpPort(udpPort, call[p].port)
  /\ call' = [call EXCEPT ![p] =
                [@ EXCEPT !.pc = "done", !.result = call[p].tempCommands]]
  /\ UNCHANGED <<reg, udpTrackerClient>>

\* Two callers that are not serialized, one for each family.
FamilyOf(p) == IF p = Main THEN AF_INET ELSE AF_INET6

\* The inputs of the calls of SpecConc: the load succeeds and recovers no
\* node, the listen port preference is ListenPort, one port is free, and no
\* entry point host is set.
ConcInputs(p) ==
  /\ call[p].snapshot.ok
  /\ call[p].snapshot.nodes = {}
  /\ call[p].conf \in {<<>>, ListenPort}
  /\ call[p].pc # "bind" => Cardinality(call[p].avail) = 1
  /\ \A f \in Families : ~call[p].entryHost[f]

StepConc(p) ==
  \/ Setup(p, FamilyOf(p))
  \/ Load(p) /\ ConcInputs(p)'
  \/ Bind(p) /\ ConcInputs(p)'
  \/ SetPort(p)
  \/ Construct(p)
  \/ Wire(p)
  \/ Register(p)
  \/ Seed(p)
  \/ EntryPoint(p) /\ ConcInputs(p)'
  \/ Fixed(p)
  \/ Mark(p)
  \/ PublishTest(p)
  \/ PublishWrite(p)
  \/ Catch(p)

NextConc == \E p \in Procs : StepConc(p)

SpecConc == Init /\ [][NextConc]_vars

\* A single caller whose listen port preference stays the same from call to
\* call and who finds no UDP port set before its first call.
InitDual == Init /\ udpPort = 0

DualInputs(p) == call[p].conf \in {<<>>, ListenPort}

StepDual(p) ==
  \/ \E family \in FamilyArgs : Setup(p, family)
  \/ Load(p)
  \/ Bind(p) /\ DualInputs(p)'
  \/ SetPort(p)
  \/ Construct(p)
  \/ Wire(p)
  \/ Register(p)
  \/ Seed(p)
  \/ EntryPoint(p)
  \/ Fixed(p)
  \/ Mark(p)
  \/ Publish(p)
  \/ Raise(p)
  \/ Catch(p)

NextDual == StepDual(Main)

SpecDual == InitDual /\ [][NextDual]_vars

\* Two callers on the host's single thread: a call is entered only when no
\* call is in progress.
Serial == \A q \in Procs : ~InCall(q)

\* The inputs of the calls of SpecRetry: no node is recovered, the listen
\* port preference is ListenPort, either every port can be bound or none, no
\* entry point host is set, and a throw in the block of the fixed commands
\* comes before the first of them.
RetryInputs(p) ==
  /\ call[p].snapshot.nodes = {}
  /\ call[p].conf \in {<<>>, ListenPort}
  /\ call[p].avail \in {{}, Ports}
  /\ \A f \in Families : ~call[p].entryHost[f]
  /\ call[p].pc = "catch" => call[p].tempCommands = <<>>

StepRetry(p) ==
  \/ Serial /\ \E family \in Families : Setup(p, family)
  \/ Load(p) /\ RetryInputs(p)'
  \/ Bind(p) /\ RetryInputs(p)'
  \/ SetPort(p)
  \/ Construct(p)
  \/ Wire(p)
  \/ Register(p)
  \/ Seed(p)
  \/ EntryPoint(p) /\ RetryInputs(p)'
  \/ Fixed(p)
  \/ Mark(p)
  \/ Publish(p)
  \/ Raise(p) /\ RetryInputs(p)'
  \/ Catch(p)

NextRetry == \E p \in Procs : StepRetry(p)

SpecRetry == Init /\ [][NextRetry]_vars

\* ------------------------------------------------------- outcomes of a call
Done(p) == call[p].pc = "done"

\* The call took the early return of line 90.
Rejected(p) == Done(p) /\ ~call[p].loaded

\* The call went through the handler of line 289.
Failed(p) == Done(p) /\ call[p].thrownAt # "none"

\* The call ran the try block to its end.
Succeeded(p) == Done(p) /\ call[p].loaded /\ call[p].thrownAt = "none"

\* The call is past the bind of lines 113-135.
PastBind(p) == call[p].loaded /\ call[p].pc # "bind"

ValidFamily(p) == call[p].family \in Families

Refs(d) ==
  <<d.routingTable, d.taskQueue, d.taskFactory, d.peerAnnounceStorage,
    d.tokenTracker, d.messageDispatcher, d.messageReceiver, d.messageFactory>>

Absent(d) ==
  /\ ~d.initialized
  /\ d.localNode = NoNode
  /\ \A i \in 1..Len(Refs(d)) : Refs(d)[i] = 0

FullyWired(d) ==
  /\ d.initialized
  /\ d.localNode # NoNode
  /\ \A i \in 1..Len(Refs(d)) : Refs(d)[i] # 0

\* ------------------------------------------------------------------ claims
\* C1: between calls of setup every family's registry slot is either absent
\* (flag false, the nine references unset) or fully wired (flag true, the
\* nine references set).
C1_AbsentOrFullyWired ==
  (\A p \in Procs : ~InCall(p)) =>
    \A f \in Families : Absent(reg[f]) \/ FullyWired(reg[f])

\* C1 witness: a call that failed after the slot was populated has returned
\* while the other family is active.
C1_Witness ==
  /\ Failed(Main)
  /\ call[Main].thrownAt = "fixed"
  /\ call[Main].family = AF_INET6
  /\ FullyWired(reg[AF_INET])
  /\ Absent(reg[AF_INET6])

\* C2: a call that failed at the bind or later returns with the family's
\* slot as it is when never activated, with an empty list and, for IPv4,
\* with no UDPTrackerClient registered.
C2_FailureRollsBack ==
  \A p \in Procs :
    Failed(p) =>
      /\ reg[call[p].family] = EmptyData
      /\ call[p].result = <<>>
      /\ call[p].family = AF_INET => udpTrackerClient = 0

\* C2 witness: an IPv4 call failed after its slot was populated.
C2_Witness ==
  /\ Failed(Main)
  /\ call[Main].family = AF_INET
  /\ call[Main].thrownAt \in {"seed", "entry", "fixed"}

\* C3: a call with an unknown family, or for a family that is active,
\* returns an empty list, loads nothing, binds nothing and leaves the
\* registry, the UDP port and the UDPTrackerClient as they were.
C3_RejectedChangesNothing ==
  \A p \in Procs :
    (Done(p) /\ (~ValidFamily(p) \/ call[p].pre.reg[call[p].family].initialized)) =>
      /\ call[p].result = <<>>
      /\ ~call[p].loaded
      /\ call[p].tried = <<>>
      /\ Globals = call[p].pre

\* C3 witness: a call for IPv6 returned while IPv6 was already active.
C3_Witness ==
  /\ Done(Main)
  /\ call[Main].family = AF_INET6
  /\ call[Main].pre.reg[AF_INET6].initialized
  /\ call[Main].pre.udpTrackerClient # 0

\* C4: from its entry to its return a call for one family leaves the other
\* family's slot as it was, and a call for IPv6 leaves the UDPTrackerClient
\* as it was.
C4_OtherFamilyUntouched ==
  \A p \in Procs :
    (call[p].pc # "idle" /\ ValidFamily(p)) =>
      /\ \A g \in Families \ {call[p].family} : reg[g] = call[p].pre.reg[g]
      /\ call[p].family = AF_INET6 =>
           udpTrackerClient = call[p].pre.udpTrackerClient

\* C4 witness: an IPv6 call failed after populating its slot while IPv4 was
\* active with its UDPTrackerClient registered.
C4_Witness ==
  /\ Failed(Main)
  /\ call[Main].family = AF_INET6
  /\ call[Main].thrownAt = "seed"
  /\ FullyWired(reg[AF_INET])
  /\ udpTrackerClient # 0

\* C5: an exception in flight is always on its way to the handler, no call
\* returns with one, and the returned list is non-empty exactly when the
\* call took the family from absent to active.
C5_ReturnsNormally ==
  \A p \in Procs :
    /\ call[p].exc # "none" => call[p].pc = "catch"
    /\ Done(p) =>
         /\ call[p].exc = "none"
         /\ (call[p].result # <<>>) <=>
              /\ ValidFamily(p)
              /\ ~call[p].pre.reg[call[p].family].initialized
              /\ reg[call[p].family].initialized

\* C5 witness: a call returned after an exception thrown among the fixed
\* commands, with the entry point command already pushed.
C5_Witness ==
  /\ Failed(Main)
  /\ call[Main].thrownAt = "fixed"
  /\ call[Main].entryHost[call[Main].family]

\* C6: a call that finds the UDP port P # 0 and is not rejected binds
\* exactly P and nothing else; when the bind succeeds the bound port and the
\* local node's port are P and the UDP port stays P, and when it fails the
\* call fails, whatever other ports are free.
C6_ReusesNegotiatedPort ==
  \A p \in Procs :
    (PastBind(p) /\ call[p].pre.udpPort # 0) =>
      LET c == call[p]
          P == call[p].pre.udpPort
      IN  /\ c.tried = <<P>>
          /\ udpPort = P
          /\ c.bound <=> P \in c.avail
          /\ c.bound =>
               /\ c.port = P
               /\ c.pc # "setport" => c.localNode.port = P
               /\ Succeeded(p) => reg[c.family].localNode.port = P
          /\ ~c.bound =>
               /\ c.thrownAt = "bind"
               /\ Done(p) => (c.result = <<>> /\ ~reg[c.family].initialized)

\* C6 witness: an activation succeeded on the port that was already set,
\* with a lower port free as well.
C6_Witness ==
  /\ Succeeded(Main)
  /\ call[Main].pre.udpPort = MaxPort
  /\ call[Main].avail = Ports

Ascending(s) == \A i \in 1..(Len(s) - 1) : s[i] < s[i + 1]

C8_PublishStep ==
  udpPort' # udpPort =>
    \E p \in Procs :
      /\ call[p].pc = "publish"
      /\ Succeeded(p)'
      /\ reg[call[p].family].initialized
      /\ udpPort = 0
      /\ call[p].pre.udpPort = 0
      /\ udpPort' = call[p].port

C8_Untouched ==
  \A p \in Procs :
    (Rejected(p) \/ Failed(p) \/ InCall(p)) => udpPort = call[p].pre.udpPort

C8_WrittenOnce ==
  /\ []C8_Untouched
  /\ [][C8_PublishStep]_vars
  /\ [][udpPort # 0 => udpPort' = udpPort]_vars

\* C8 witness: a call failed after an earlier activation had published the
\* port it bound.
C8_Witness ==
  /\ Failed(Main)
  /\ call[Main].thrownAt = "entry"
  /\ call[Main].pre.udpPort # 0
  /\ \E f \in Families : reg[f].initialized /\ reg[f].localNode.port = udpPort

IsFixedTail(s) ==
  /\ Len(s) >= 5
  /\ s[Len(s) - 4] = "DHTInteractionCommand"
  /\ s[Len(s) - 3] = "DHTTokenUpdateCommand"
  /\ s[Len(s) - 2] = "DHTBucketRefreshCommand"
  /\ s[Len(s) - 1] = "DHTPeerAnnounceCommand"
  /\ s[Len(s)] = "DHTAutoSaveCommand"

IsFixedHead(s) ==
  /\ Len(s) >= 5
  /\ s[1] = "DHTInteractionCommand"
  /\ s[2] = "DHTTokenUpdateCommand"
  /\ s[3] = "DHTBucketRefreshCommand"
  /\ s[4] = "DHTPeerAnnounceCommand"
  /\ s[5] = "DHTAutoSaveCommand"

\* C9 as stated: the list of a successful call is the five fixed commands
\* in the order of the table, followed by the forced bucket refresh and the
\* entry point command where they apply.
C9_TableOrder ==
  \A p \in Procs :
    Succeeded(p) =>
      LET r == call[p].result
          forced == IF call[p].snapshot.nodes # {} THEN 1 ELSE 0
          entry == IF call[p].entryHost[call[p].family] THEN 1 ELSE 0
      IN  /\ IsFixedHead(r)
          /\ Len(r) = 5 + forced + entry
          /\ forced = 1 => r[6] = "BucketRefreshTask(forceRefresh)"
          /\ entry = 1 => r[Len(r)] = "DHTEntryPointNameResolveCommand"

\* C9 as amended: the list of a successful call has 5 or 6 entries: the
\* entry point command first when the family's entry point host is set,
\* then the five fixed commands, each once, in the order driver, token
\* rotation, bucket refresh check, peer announce check, auto save; the
\* forced bucket refresh is no entry of the list (it is put on the task
\* queue).
C9_ReturnedCommands ==
  \A p \in Procs :
    Succeeded(p) =>
      LET r == call[p].result
          entry == IF call[p].entryHost[call[p].family] THEN 1 ELSE 0
      IN  /\ IsFixedTail(r)
          /\ Len(r) = 5 + entry
          /\ entry = 1 => r[1] = "DHTEntryPointNameResolveCommand"
          /\ \A i \in 1..Len(r) : r[i] # "BucketRefreshTask(forceRefresh)"

\* C9 witness: a successful call with recovered nodes and the entry point
\* host set.
C9_Witness ==
  /\ Succeeded(Main)
  /\ call[Main].snapshot.nodes # {}
  /\ call[Main].entryHost[call[Main].family]
  /\ Len(call[Main].result) = 6

BeforeSeed(p) ==
  call[p].pc \in {"load", "bind", "setport", "construct", "wire", "register"}

AfterSeed(p) ==
  call[p].pc \in {"entry", "fixed", "mark", "publish"} \/ Succeeded(p)

\* C10: no node is added to the routing table and no task is queued before
\* the family's slot holds the call's routing table; from the seeding on,
\* the routing table has received each of the N deserialized nodes once and
\* the task queue holds one forced bucket refresh when N > 0 and none when
\* N = 0, which is the case when the load failed.
C10_Seeding ==
  \A p \in Procs :
    LET c == call[p]
        N == Cardinality(call[p].snapshot.nodes)
    IN  /\ BeforeSeed(p) => (c.rt = <<>> /\ c.periodicTasks1 = <<>>)
        /\ (InCall(p) /\ c.pc # "catch" /\ c.rt # <<>>) =>
             reg[c.family].routingTable = c.id
        /\ c.loaded /\ ~c.snapshot.ok => N = 0
        /\ AfterSeed(p) =>
             /\ Len(c.rt) = N
             /\ Range(c.rt) = c.snapshot.nodes
             /\ reg[c.family].routingTable = c.id
             /\ c.periodicTasks1 =
                  IF N > 0 THEN <<"BucketRefreshTask(forceRefresh)">> ELSE <<>>

\* C10 witness: a successful call that recovered MaxPeers nodes.
C10_Witness ==
  /\ Succeeded(Main)
  /\ Cardinality(call[Main].snapshot.nodes) = MaxPeers
  /\ Len(call[Main].rt) = MaxPeers
  /\ Len(call[Main].periodicTasks1) = 1

Count(s, x) == Cardinality({i \in 1..Len(s) : s[i] = x})

\* C11: the list of a successful call holds one entry point command when
\* the entry point host of the call's own family is set and none when it is
\* not, whatever the setting of the other family.
C11_EntryPointCommand ==
  \A p \in Procs :
    Succeeded(p) =>
      Count(call[p].result, "DHTEntryPointNameResolveCommand") =
        IF call[p].entryHost[call[p].family] THEN 1 ELSE 0

\* C11 witness: an IPv6 call succeeded with no entry point host of its own
\* while the IPv4 host is set.
C11_Witness ==
  /\ Succeeded(Main)
  /\ call[Main].family = AF_INET6
  /\ ~call[Main].entryHost[AF_INET6]
  /\ call[Main].entryHost[AF_INET]
  /\ Count(call[Main].result, "DHTEntryPointNameResolveCommand") = 0

\* C12: a failed load is never what makes a call fail: the call goes on with
\* a new local node and no recovered node, and when it runs to its end the
\* family is active with that node registered and the five fixed commands
\* returned; after a load that succeeded the registered local node is the
\* one read from the file.
C12_LoadFailureRecovered ==
  \A p \in Procs :
    call[p].loaded =>
      LET c == call[p]
      IN  /\ c.thrownAt # "load"
          /\ c.localNode.origin = IF c.snapshot.ok THEN "file" ELSE "new"
          /\ c.localNode.owner = c.id
          /\ ~c.snapshot.ok => c.snapshot.nodes = {}
          /\ c.pc = "bind" => c.exc = "none"
          /\ Succeeded(p) =>
               /\ reg[c.family].initialized
               /\ reg[c.family].localNode.origin =
                    IF c.snapshot.ok THEN "file" ELSE "new"
               /\ IsFixedTail(c.result)

\* C12 witness: a call whose load failed activated its family.
C12_Witness ==
  /\ Succeeded(Main)
  /\ ~call[Main].snapshot.ok
  /\ reg[call[Main].family].localNode.origin = "new"
  /\ Len(call[Main].result) >= 5

\* The call is in its try block or has run it to its end.
Clean(p) == call[p].loaded /\ call[p].thrownAt = "none"

\* The call's own objects are in the family's slot.
Registered(p) ==
  /\ reg[call[p].family].localNode = call[p].localNode
  /\ \A i \in 1..Len(Refs(reg[call[p].family])) :
       Refs(reg[call[p].family])[i] = call[p].id

\* C15: in a call that does not fail, each step finds the effects of the
\* steps before it: the port is given to the local node after the bind, the
\* slot is populated after that, the routing table is seeded and commands
\* are created only with the slot populated, the family is marked active
\* only with the slot populated, the seeding done and all commands created,
\* and the UDP port is published only with the family marked active.
C15_StepOrder ==
  \A p \in Procs :
    Clean(p) =>
      LET c == call[p]
          d == reg[c.family]
      IN  /\ c.localNode.port # 0 =>
               (c.bound /\ c.port \in c.avail /\ c.localNode.port = c.port)
          /\ d.routingTable = c.id =>
               (Registered(p) /\ d.localNode.port = c.port /\ c.port # 0)
          /\ (c.rt # <<>> \/ c.periodicTasks1 # <<>>) => Registered(p)
          /\ c.tempCommands # <<>> =>
               /\ Registered(p)
               /\ c.rt = SeedNodes(c.snapshot.nodes)
               /\ c.periodicTasks1 = SeedTasks(c.snapshot.nodes)
          /\ d.initialized =>
               /\ Registered(p)
               /\ c.rt = SeedNodes(c.snapshot.nodes)
               /\ c.periodicTasks1 = SeedTasks(c.snapshot.nodes)
               /\ IsFixedTail(c.tempCommands)
          /\ udpPort # c.pre.udpPort =>
               (d.initialized /\ udpPort = c.port /\ Done(p))
          /\ Succeeded(p) =>
               (d.initialized /\ Registered(p) /\ udpPort # 0)

\* C15 witness: a call that recovered nodes and had an entry point has
\* marked its family active and has not yet published the port it bound.
C15_Witness ==
  /\ call[Main].pc = "publish"
  /\ reg[call[Main].family].initialized
  /\ udpPort = 0
  /\ call[Main].port # 0
  /\ call[Main].rt # <<>>
  /\ Len(call[Main].tempCommands) = 6

Position(s, x) == Min({i \in 1..Len(s) : s[i] = x} \cup {Len(s) + 1})

\* What exists when the setters of lines 153-180 run, besides the services:
\* the connection of the bind and the local node of the load.
Exists(c, x) ==
  \/ x \in c.built
  \/ x = "connection" /\ c.bound
  \/ x = "localNode" /\ c.localNode # NoNode

\* C16: a constructor is handed only services made by an earlier statement,
\* a setter is called only on and with objects that exist, and the routing
\* table is seeded and the first task or command is created only when all
\* nine services are built and every injection has been made.
C16_WiredBeforeUse ==
  \A p \in Procs :
    LET c == call[p]
    IN  /\ c.built # {} =>
             /\ c.built = Services
             /\ \A w \in CtorWiring :
                  Position(ConstructOrder, w[2]) < Position(ConstructOrder, w[1])
                  /\ Position(ConstructOrder, w[1]) <= Len(ConstructOrder)
        /\ \A w \in c.wired : w[1] \in c.built /\ Exists(c, w[2])
        /\ (c.rt # <<>> \/ c.periodicTasks1 # <<>> \/ c.tempCommands # <<>>) =>
             /\ c.built = Services
             /\ CtorWiring \subseteq c.wired
             /\ c.wired = Wiring
             /\ \A s \in Services : \E w \in c.wired : s \in {w[1], w[2]}

\* C16 witness: the forced bucket refresh task is the first task made, with
\* no command created yet.
C16_Witness ==
  /\ call[Main].pc = "entry"
  /\ call[Main].periodicTasks1 = <<"BucketRefreshTask(forceRefresh)">>
  /\ call[Main].tempCommands = <<>>
  /\ call[Main].wired = Wiring
  /\ call[Main].built = Services

C17_Registry ==
  \A p \in Procs :
    LET c == call[p]
    IN  /\ (Succeeded(p) /\ c.family = AF_INET) =>
             /\ udpTrackerClient = c.trackerClient
             /\ udpTrackerClient = c.id
             /\ udpTrackerClient # 0
             /\ udpTrackerClient # c.pre.udpTrackerClient
        /\ (Failed(p) /\ c.family = AF_INET) => udpTrackerClient = 0
        /\ (c.pc # "idle" /\ c.family # AF_INET) =>
             udpTrackerClient = c.pre.udpTrackerClient
        /\ Rejected(p) => udpTrackerClient = c.pre.udpTrackerClient

C17_RegistryStep ==
  udpTrackerClient' # udpTrackerClient =>
    \E p \in Procs :
      /\ call[p].family = AF_INET
      /\ \/ call[p].pc = "register" /\ udpTrackerClient' = call[p].trackerClient
         \/ call[p].pc = "catch" /\ udpTrackerClient' = 0

\* C17: the UDPTrackerClient of the registry changes only in the registry
\* assignment and in the handler of an IPv4 call; a successful IPv4 call
\* leaves the client it made, a failed IPv4 call leaves none, and a call for
\* IPv6, whether it succeeds, fails or is rejected, leaves what it found.
C17_TrackerClientIPv4Only ==
  []C17_Registry /\ [][C17_RegistryStep]_vars

\* C17 witness: an IPv6 call failed after the registry assignment while the
\* client of the IPv4 activation is registered.
C17_Witness ==
  /\ Failed(Main)
  /\ call[Main].family = AF_INET6
  /\ call[Main].thrownAt \in {"seed", "entry", "fixed"}
  /\ reg[AF_INET].initialized
  /\ udpTrackerClient # 0
  /\ udpTrackerClient = reg[AF_INET].routingTable

\* Step property: the slot of an active family does not change.
C19_Absorbing ==
  \A f \in Families : reg[f].initialized => reg'[f] = reg[f]

\* Step property: a call for an active family takes the early return.
C19_RejectedWhenActive ==
  \A p \in Procs :
    (~InCall(p) /\ call'[p] # call[p] /\ call'[p].family \in Families
       /\ reg[call'[p].family].initialized) =>
      (Rejected(p)' /\ call'[p].result = <<>>)

\* Step property: a call returns a list that is not empty only when it found
\* its family not active and leaves it active with its own objects.
C19_ReturnStep ==
  \A p \in Procs :
    (InCall(p) /\ Done(p)' /\ call'[p].result # <<>>) =>
      /\ call[p].family \in Families
      /\ ~call[p].pre.reg[call[p].family].initialized
      /\ reg'[call[p].family].initialized
      /\ reg'[call[p].family].routingTable = call[p].id

\* A returned list that is not empty is the list of the call whose objects
\* the active family holds.
C19_Returned ==
  \A p \in Procs :
    (Done(p) /\ call[p].result # <<>>) =>
      /\ Succeeded(p)
      /\ reg[call[p].family].initialized
      /\ reg[call[p].family].routingTable = call[p].id

\* C19: over serialized calls an active family stays active with the same
\* references in its slot whatever call is made for either family, every
\* later call for it is rejected with an empty list, and a list that is not
\* empty is returned only by the call that made the family active: at most
\* one per family.
C19_ActiveAbsorbing ==
  /\ []C19_Returned
  /\ [][C19_Absorbing]_vars
  /\ [][C19_RejectedWhenActive]_vars
  /\ [][C19_ReturnStep]_vars

\* C19 witness: with both families active, a further IPv4 call was rejected.
C19_Witness ==
  /\ Rejected(Main)
  /\ call[Main].family = AF_INET
  /\ FullyWired(reg[AF_INET])
  /\ FullyWired(reg[AF_INET6])
  /\ call[Main].pre.reg = reg

\* The family's activating call stands between lines 284 and 285.
Publishing(f) == \E p \in Procs : call[p].pc = "publish" /\ call[p].family = f

\* C20: once the call that activates a family has passed lines 285-288, and
\* so between calls, an active family's local node carries the UDP port of
\* the registry, which is not 0; two active families carry the same port.
C20_ActivePort ==
  /\ \A f \in Families :
       (reg[f].initialized /\ ~Publishing(f)) =>
         (udpPort # 0 /\ reg[f].localNode.port = udpPort)
  /\ (\A f \in Families : reg[f].initialized /\ ~Publishing(f)) =>
       reg[AF_INET].localNode.port = reg[AF_INET6].localNode.port

\* C20 witness: the second family was activated on the port the first one
\* had published.
C20_Witness ==
  /\ Succeeded(Main)
  /\ call[Main].pre.udpPort # 0
  /\ call[Main].pre.reg[AF_INET].initialized # call[Main].pre.reg[AF_INET6].initialized
  /\ \A f \in Families : reg[f].initialized /\ reg[f].localNode.port = udpPort

\* Step property: the handler leaves the family's slot as it is when never
\* activated.
C13_HandlerStep ==
  \A p \in Procs :
    (call[p].pc = "catch" /\ Done(p)') =>
      (Failed(p)' /\ Absent(reg'[call[p].family]))

\* Step property: a call for a family that is not active is not rejected.
C13_EntryStep ==
  \A p \in Procs :
    (~InCall(p) /\ call'[p] # call[p]) =>
      (~reg[call'[p].family].initialized =>
         (call'[p].pc = "load" /\ Absent(reg[call'[p].family])))

\* Step property: a step of the try block that does not throw goes to the
\* next one, and the last one returns with the family active.
C13_TryStep ==
  \A p \in Procs :
    (InCall(p) /\ call'[p] # call[p] /\ call'[p].pc # "catch"
       /\ call[p].pc # "catch") =>
      /\ <<call[p].pc, call'[p].pc>> \in
           {<<"load", "bind">>, <<"bind", "setport">>,
            <<"setport", "construct">>, <<"construct", "wire">>,
            <<"wire", "register">>, <<"register", "seed">>,
            <<"seed", "entry">>, <<"entry", "fixed">>, <<"fixed", "mark">>,
            <<"mark", "publish">>, <<"publish", "done">>}
      /\ Done(p)' => (Succeeded(p)' /\ FullyWired(reg'[call[p].family]))

\* A call that ran to its end went through every step and its family is
\* active with its objects; with no call in progress a family that is not
\* active is absent.
C13_RanFullSequence ==
  /\ \A p \in Procs :
       Succeeded(p) =>
         /\ call[p].bound
         /\ call[p].built = Services
         /\ call[p].wired = Wiring
         /\ Registered(p)
         /\ IsFixedTail(call[p].result)
         /\ FullyWired(reg[call[p].family])
  /\ Serial => \A f \in Families : reg[f].initialized \/ Absent(reg[f])

\* C13: a failed call leaves its family absent, a call for a family that is
\* not active is never rejected, however many calls failed before it, and a
\* call that is not rejected and in which nothing throws runs every step
\* and returns with the family active.
C13_RetryAfterFailure ==
  /\ []C13_RanFullSequence
  /\ [][C13_HandlerStep]_vars
  /\ [][C13_EntryStep]_vars
  /\ [][C13_TryStep]_vars

\* C13 witness: a call for a family failed after the registry assignment
\* and a later call for the same family has activated it.
C13_Witness ==
  /\ Failed(Other)
  /\ call[Other].thrownAt \in {"seed", "entry", "fixed"}
  /\ Succeeded(Main)
  /\ call[Main].family = call[Other].family
  /\ FullyWired(reg[call[Main].family])
  /\ reg[call[Main].family].routingTable = call[Main].id

OtherFamily(f) == IF f = AF_INET THEN AF_INET6 ELSE AF_INET

\* The ports of the listen port preference that the call could bind.
Bindable(c) == Range(ListenPort) \cap c.avail

\* C14 as stated: a call binds what it binds when no call was made for the
\* other family before it, that is with the UDP port still 0: the lowest
\* port of the preference that is free, or none when none is free.
C14_Independent ==
  \A p \in Procs :
    (PastBind(p) /\ ValidFamily(p)) =>
      /\ call[p].bound = (Bindable(call[p]) # {})
      /\ call[p].bound => call[p].port = Min(Bindable(call[p]))

\* C14: a call is influenced by the other family only through the UDP port
\* an activation of that family has published.  With the UDP port still 0
\* the call binds the lowest free port of the preference, whatever calls for
\* the other family failed or were rejected before; with a UDP port
\* published it binds that port or fails, the other family then being
\* active on that port.  The list of a successful call is made of the
\* call's own entry point command and the five fixed commands.
C14_CoupledByPort ==
  \A p \in Procs :
    (PastBind(p) /\ ValidFamily(p)) =>
      LET c == call[p]
          o == c.pre.reg[OtherFamily(c.family)]
      IN  /\ c.pre.udpPort = 0 =>
               /\ ~o.initialized
               /\ c.bound = (Bindable(c) # {})
               /\ c.bound => c.port = Min(Bindable(c))
          /\ c.pre.udpPort # 0 =>
               /\ o.initialized
               /\ o.localNode.port = c.pre.udpPort
               /\ c.bound = (c.pre.udpPort \in c.avail)
               /\ c.bound => c.port = c.pre.udpPort
          /\ Succeeded(p) =>
               Len(c.result) = 5 + (IF c.entryHost[c.family] THEN 1 ELSE 0)

\* C14 witness: a call failed at the bind because the port published by the
\* other family's activation was not free, with another port of the
\* preference free.
C14_Witness ==
  /\ Failed(Main)
  /\ call[Main].thrownAt = "bind"
  /\ call[Main].pre.udpPort # 0
  /\ call[Main].pre.udpPort \notin call[Main].avail
  /\ Bindable(call[Main]) # {}
  /\ reg[OtherFamily(call[Main].family)].initialized

\* The call read the UDP port as 0 at line 116 and bound a port of the
\* listen port preference.
ReadZero(p) == call[p].bound /\ call[p].conf = ListenPort

\* C18 as stated: the port written first stays.
C18_FirstWriterWins == [][udpPort # 0 => udpPort' = udpPort]_vars

\* Step property: the UDP port is written only by line 287 of a call that
\* read it as 0 at the bind and has marked its family active.
C18_WriteStep ==
  udpPort' # udpPort =>
    \E p \in Procs :
      /\ call[p].pc = "write"
      /\ ReadZero(p)
      /\ reg[call[p].family].initialized
      /\ udpPort' = call[p].port
      /\ Succeeded(p)'

\* Step property: line 285 sends the call to line 287 when the UDP port is
\* 0 and to the return when it is not.
C18_TestStep ==
  \A p \in Procs :
    (call[p].pc = "publish" /\ call'[p] # call[p]) =>
      /\ udpPort' = udpPort
      /\ udpPort = 0 => call'[p].pc = "write"
      /\ udpPort # 0 => Succeeded(p)'

\* With a call returned that read the UDP port as 0, the UDP port is the
\* port of an active family; a call stands at line 287 only after reading
\* 0 at the bind.
C18_Published ==
  /\ (\E p \in Procs : Succeeded(p) /\ ReadZero(p)) =>
       /\ udpPort # 0
       /\ \E f \in Families :
            reg[f].initialized /\ reg[f].localNode.port = udpPort
  /\ \A p \in Procs : call[p].pc = "write" => ReadZero(p)

\* C18: with the two calls interleaved statement by statement, a call whose
\* test of line 285 comes after the other's write of line 287 does not
\* write; two calls whose tests both come before either write both write,
\* and the UDP port ends as the port of the one that wrote last.  It is
\* always the port bound by one of the activations.
C18_LastWriterStays ==
  /\ []C18_Published
  /\ [][C18_WriteStep]_vars
  /\ [][C18_TestStep]_vars

\* C18 witness: both calls read the UDP port as 0 and bound different ports;
\* the IPv6 call has published its port and returned, and the IPv4 call,
\* which tested before that, stands at the write.
C18_Witness ==
  /\ call[Main].pc = "write"
  /\ ReadZero(Main)
  /\ Succeeded(Other)
  /\ ReadZero(Other)
  /\ udpPort = call[Other].port
  /\ call[Main].port # udpPort
  /\ call[Main].family = AF_INET
  /\ call[Other].family = AF_INET6

====
